---- MODULE Spec2Model ----
(***************************************************************************)
(* Model of the target-features crate (src/lib.rs): the Feature handle,    *)
(* the Target value with its feature bitset, and supports_feature.         *)
(*                                                                         *)
(* The caller is modelled as a state machine that owns one Target value    *)
(* `t` and repeatedly applies one public operation to it.  A call that     *)
(* panics produces no value: the caller's (Copy) target is left as it was. *)
(***************************************************************************)
EXTENDS Integers, Sequences, FiniteSets, TLC

\* Number of successful with_feature/without_feature calls recorded per target.
MaxOps == 3

----------------------------------------------------------------------------
(* enum Architecture and its `as u8` discriminant *)

Architecture ==
    {"Arm", "AArch64", "Bpf", "Hexagon", "Mips", "PowerPC", "RiscV", "Wasm", "X86", "Unsupported"}

ArchU8 ==
    [a \in Architecture |->
        CASE a = "Arm" -> 0
          [] a = "AArch64" -> 1
          [] a = "Bpf" -> 2
          [] a = "Hexagon" -> 3
          [] a = "Mips" -> 4
          [] a = "PowerPC" -> 5
          [] a = "RiscV" -> 6
          [] a = "Wasm" -> 7
          [] a = "X86" -> 8
          [] a = "Unsupported" -> 9]

\* The architectures a caller passes: every architecture of the table, and
\* one that has no features.
CallerArchs == {"Arm", "AArch64", "X86", "Unsupported"}

----------------------------------------------------------------------------
(* The generated table FEATURES: (architecture, name, description, implies). *)
(* Names are byte strings, written as tuples of one-character strings.     *)
(* Handles are 0-based indices, stored here in a 1-based sequence.         *)

FEATURES ==
    << <<"X86",     <<"a","v","x","2">>, "AVX2 instructions",   <<1, 2>> >>,
       <<"X86",     <<"a","v","x">>,     "AVX instructions",    <<2>> >>,
       <<"X86",     <<"s","s","e">>,     "SSE instructions",    <<>> >>,
       <<"Arm",     <<"n","e","o","n">>, "NEON",                <<4>> >>,
       <<"Arm",     <<"v","f","p">>,     "VFP",                 <<5>> >>,
       <<"Arm",     <<"d","3","2">>,     "32 double registers", <<3>> >>,
       <<"AArch64", <<"n","e","o","n">>, "Advanced SIMD",       <<>> >> >>

FEATURES_len == Len(FEATURES)

\* struct Feature(usize): every handle is a valid index of the table
Feature == 0 .. (FEATURES_len - 1)

\* Names a caller may pass: every table name, plus a strict prefix, an
\* extension, a different case, the empty name and an unrelated name.
Names ==
    {FEATURES[k][2] : k \in 1 .. FEATURES_len}
        \cup { <<"a","v">>, <<"a","v","x","2","2">>, <<"A","V","X">>, <<>>, <<"z","z">> }

----------------------------------------------------------------------------
(* Outcomes of a call *)

Ok(v) == [tag |-> "Ok", val |-> v]

Err == [tag |-> "Err"]

Panic == [tag |-> "Panic"]

----------------------------------------------------------------------------
(* impl Feature *)

RECURSIVE str_eq_loop(_, _, _)
str_eq_loop(a, b, i) ==
    IF i < Len(a)
    THEN IF i >= Len(b)
         THEN "panic"                       \* b[i] out of bounds
         ELSE IF a[i + 1] # b[i + 1]
              THEN "false"
              ELSE str_eq_loop(a, b, i + 1)
    ELSE "true"

\* a plausible slip: the length check is missing
str_eq_nolen(a, b) ==
    str_eq_loop(a, b, 0)

str_eq(a, b) ==
    IF Len(a) # Len(b) THEN "false" ELSE str_eq_loop(a, b, 0)

RECURSIVE Feature_new_loop(_, _, _)
Feature_new_loop(architecture, feature, i) ==
    IF i < FEATURES_len
    THEN IF ArchU8[architecture] = ArchU8[FEATURES[i + 1][1]]
         THEN LET e == str_eq(feature, FEATURES[i + 1][2])
              IN  IF e = "panic" THEN Panic
                  ELSE IF e = "true" THEN Ok(i)
                  ELSE Feature_new_loop(architecture, feature, i + 1)
         ELSE Feature_new_loop(architecture, feature, i + 1)
    ELSE Err

RECURSIVE Feature_new_anyarch_loop(_, _)
Feature_new_anyarch_loop(feature, i) ==
    IF i < FEATURES_len
    THEN LET e == str_eq(feature, FEATURES[i + 1][2])
         IN  IF e = "panic" THEN Panic
             ELSE IF e = "true" THEN Ok(i)
             ELSE Feature_new_anyarch_loop(feature, i + 1)
    ELSE Err

\* a plausible slip: the architecture is not compared
Feature_new_anyarch(architecture, feature) ==
    Feature_new_anyarch_loop(feature, 0)

Feature_new(architecture, feature) ==
    Feature_new_loop(architecture, feature, 0)

name(self) == FEATURES[self + 1][2]

architecture(self) == FEATURES[self + 1][1]

description(self) == FEATURES[self + 1][3]

implies(self) == FEATURES[self + 1][4]

----------------------------------------------------------------------------
(* impl Target *)

\* a plausible slip: the array is initialised with true
Target_new_allset(arch) ==
    [architecture |-> arch, features |-> [i \in Feature |-> TRUE]]

Target_new(arch) ==
    [architecture |-> arch, features |-> [i \in Feature |-> FALSE]]

Target_architecture(self) == self.architecture

RECURSIVE supports_feature_inner(_, _, _)
supports_feature_inner(impl, feature, j) ==
    IF j < Len(impl)
    THEN IF feature = impl[0 + 1]
         THEN TRUE
         ELSE supports_feature_inner(impl, feature, j + 1)
    ELSE FALSE

RECURSIVE supports_feature_outer(_, _, _)
supports_feature_outer(self, feature, i) ==
    IF i < FEATURES_len
    THEN IF self.features[i] /\ supports_feature_inner(implies(i), feature, 0)
         THEN TRUE
         ELSE supports_feature_outer(self, feature, i + 1)
    ELSE FALSE

\* a plausible redesign slip: implied features are expanded one level further
supports_feature_deep(self, feature) ==
    \/ self.features[feature]
    \/ \E i \in Feature :
          /\ self.features[i]
          /\ \E j \in 1 .. Len(implies(i)) :
                \/ implies(i)[j] = feature
                \/ \E k \in 1 .. Len(implies(implies(i)[j])) :
                      implies(implies(i)[j])[k] = feature

supports_feature(self, feature) ==
    IF self.features[feature]
    THEN TRUE
    ELSE supports_feature_outer(self, feature, 0)

\* a plausible slip: an unknown name is answered with false
supports_feature_str_lenient(self, feature) ==
    LET r == Feature_new(self.architecture, feature)
    IN  IF r.tag = "Ok" THEN Ok(supports_feature(self, r.val)) ELSE Ok(FALSE)

supports_feature_str(self, feature) ==
    LET r == Feature_new(self.architecture, feature)
    IN  IF r.tag = "Ok" THEN Ok(supports_feature(self, r.val)) ELSE Panic

\* a plausible slip: the architecture assertion is missing
with_feature_noassert(self, feature) ==
    Ok([self EXCEPT !.features[feature] = TRUE])

\* a plausible slip: the bit is written with the wrong value
with_feature_clears(self, feature) ==
    IF ArchU8[architecture(feature)] = ArchU8[self.architecture]
    THEN Ok([self EXCEPT !.features[feature] = FALSE])
    ELSE Panic

with_feature(self, feature) ==
    IF ArchU8[architecture(feature)] = ArchU8[self.architecture]
    THEN Ok([self EXCEPT !.features[feature] = TRUE])
    ELSE Panic

with_feature_str(self, feature) ==
    LET r == Feature_new(self.architecture, feature)
    IN  IF r.tag = "Ok" THEN with_feature(self, r.val) ELSE Panic

\* a plausible slip: the architecture assertion is missing
without_feature_noassert(self, feature) ==
    Ok([self EXCEPT !.features[feature] = FALSE])

\* a plausible slip: the bit is left as it is
without_feature_keeps(self, feature) ==
    IF ArchU8[architecture(feature)] = ArchU8[self.architecture]
    THEN Ok(self)
    ELSE Panic

without_feature(self, feature) ==
    IF ArchU8[architecture(feature)] = ArchU8[self.architecture]
    THEN Ok([self EXCEPT !.features[feature] = FALSE])
    ELSE Panic

without_feature_str(self, feature) ==
    LET r == Feature_new(self.architecture, feature)
    IN  IF r.tag = "Ok" THEN without_feature(self, r.val) ELSE Panic

----------------------------------------------------------------------------
(* The caller *)

VARIABLES
    t,      \* the caller's current Target
    arch0,  \* the architecture given to the Target::new that created t
    hist,   \* the with_feature/without_feature calls that returned, since Target::new
    last    \* the last call: operation, arguments, receiver and outcome

vars == <<t, arch0, hist, last>>

NoFeature == 0 - 1

Call(op, a, n, f, pre, out) ==
    [op |-> op, arch |-> a, name |-> n, f |-> f, pre |-> pre, out |-> out]

Init ==
    \E a \in CallerArchs :
        /\ t = Target_new(a)
        /\ arch0 = a
        /\ hist = <<>>
        /\ last = Call("Target::new", a, <<>>, NoFeature, Target_new(a), Ok(Target_new(a)))

New(a) ==
    /\ t' = Target_new(a)
    /\ arch0' = a
    /\ hist' = <<>>
    /\ last' = Call("Target::new", a, <<>>, NoFeature, t, Ok(Target_new(a)))

Lookup(a, n) ==
    /\ last' = Call("Feature::new", a, n, NoFeature, t, Feature_new(a, n))
    /\ UNCHANGED <<t, arch0, hist>>

\* a mutator call: the returned target replaces t; a panic returns nothing
Mutate(op, kind, n, f, out) ==
    /\ Len(hist) < MaxOps
    /\ last' = Call(op, t.architecture, n, f, t, out)
    /\ t' = IF out.tag = "Ok" THEN out.val ELSE t
    /\ hist' = IF out.tag = "Ok" THEN Append(hist, [op |-> kind, f |-> f]) ELSE hist
    /\ UNCHANGED arch0

Resolved(n) ==
    LET r == Feature_new(t.architecture, n)
    IN  IF r.tag = "Ok" THEN r.val ELSE NoFeature

WithFeature(f) ==
    Mutate("with_feature", "with", <<>>, f, with_feature(t, f))

WithoutFeature(f) ==
    Mutate("without_feature", "without", <<>>, f, without_feature(t, f))

WithFeatureStr(n) ==
    Mutate("with_feature_str", "with", n, Resolved(n), with_feature_str(t, n))

WithoutFeatureStr(n) ==
    Mutate("without_feature_str", "without", n, Resolved(n), without_feature_str(t, n))

SupportsFeature(f) ==
    /\ last' = Call("supports_feature", t.architecture, <<>>, f, t, Ok(supports_feature(t, f)))
    /\ UNCHANGED <<t, arch0, hist>>

SupportsFeatureStr(n) ==
    /\ last' = Call("supports_feature_str", t.architecture, n, NoFeature, t, supports_feature_str(t, n))
    /\ UNCHANGED <<t, arch0, hist>>

Next ==
    \/ \E a \in CallerArchs : New(a)
    \/ \E a \in CallerArchs, n \in Names : Lookup(a, n)
    \/ \E f \in Feature : WithFeature(f)
    \/ \E f \in Feature : WithoutFeature(f)
    \/ \E n \in Names : WithFeatureStr(n)
    \/ \E n \in Names : WithoutFeatureStr(n)
    \/ \E f \in Feature : SupportsFeature(f)
    \/ \E n \in Names : SupportsFeatureStr(n)

Spec == Init /\ [][Next]_vars

----------------------------------------------------------------------------
(* Properties *)

Matches(i, a, n) == architecture(i) = a /\ name(i) = n

InTable(a, n) == \E i \in Feature : Matches(i, a, n)

ImpliedBy(a) == {implies(a)[j] : j \in 1 .. Len(implies(a))}

\* the kind of the last recorded call on feature f ("none" when there is none)
LastOn(f) ==
    LET ks == {k \in 1 .. Len(hist) : hist[k].f = f}
    IN  IF ks = {} THEN "none"
        ELSE hist[CHOOSE k \in ks : \A m \in ks : m <= k].op

\* C1: whenever feature A's bit is set in the target and B occurs at any
\* position of A.implies(), supports_feature(B) is true.
C1_ImpliedAnywhereSupported ==
    \A a \in Feature :
        t.features[a] => \A b \in ImpliedBy(a) : supports_feature(t, b)

\* C2: Feature::new on the (architecture, name) of a table entry returns Ok
\* with the index of exactly that entry, whose name, description and
\* architecture are the entry's.
C2_LookupFindsEntry ==
    last.op = "Feature::new" =>
        \A i \in Feature :
            Matches(i, last.arch, last.name) =>
                /\ last.out.tag = "Ok"
                /\ last.out.val = i
                /\ name(last.out.val) = FEATURES[i + 1][2]
                /\ description(last.out.val) = FEATURES[i + 1][3]
                /\ architecture(last.out.val) = FEATURES[i + 1][1]

C2_Witness ==
    /\ last.op = "Feature::new"
    /\ last.arch = "AArch64"
    /\ last.name = <<"n","e","o","n">>
    /\ last.out.tag = "Ok"
    /\ last.out.val = 6

\* C3: Feature::new on an (architecture, name) that no table entry has
\* returns Err(UnknownFeature); it does not panic and does not return Ok.
C3_UnknownIsErr ==
    (last.op = "Feature::new" /\ ~InTable(last.arch, last.name)) =>
        last.out.tag = "Err"

C3_Witness ==
    /\ last.op = "Feature::new"
    /\ last.arch = "X86"
    /\ last.name \in { <<"a","v">>, <<"a","v","x","2","2">>, <<"n","e","o","n">> }
    /\ last.out.tag = "Err"

\* C4: with_feature and without_feature panic when the feature's
\* architecture differs from the target's, and the caller gets no target
\* with a changed bit.
C4_ArchMismatchPanics ==
    (/\ last.op \in {"with_feature", "without_feature"}
     /\ architecture(last.f) # last.pre.architecture) =>
        /\ last.out.tag = "Panic"
        /\ t = last.pre

C4_Witness ==
    /\ last.op \in {"with_feature", "without_feature"}
    /\ architecture(last.f) # last.pre.architecture
    /\ \E g \in Feature : last.pre.features[g]
    /\ last.out.tag = "Panic"

\* C5: when the last with_feature/without_feature call on f since
\* Target::new is with_feature(f), supports_feature(f) is true.
C5_EnabledIsSupported ==
    \A f \in Feature : LastOn(f) = "with" => supports_feature(t, f)

C5_Witness ==
    \E f \in Feature :
        /\ Len(hist) = 3
        /\ hist[1] = [op |-> "with", f |-> f]
        /\ hist[2] = [op |-> "without", f |-> f]
        /\ hist[3] = [op |-> "with", f |-> f]
        /\ supports_feature(t, f)

\* C6: Target::new(A).with_feature(f).without_feature(f) equals
\* Target::new(A) and does not support f.
C6_EnableDisableRoundTrip ==
    (/\ Len(hist) = 2
     /\ hist[1].op = "with"
     /\ hist[2].op = "without"
     /\ hist[1].f = hist[2].f) =>
        /\ t = Target_new(arch0)
        /\ ~supports_feature(t, hist[1].f)

C6_Witness ==
    /\ Len(hist) = 2
    /\ hist[1].op = "with"
    /\ hist[2].op = "without"
    /\ hist[1].f = hist[2].f
    /\ last.op = "without_feature"
    /\ last.pre.features[last.f]
    /\ ~t.features[last.f]

\* C7: Target::new(A) has every feature bit false and supports no feature
\* of the table, of architecture A or of any other.
C7_NewSupportsNothing ==
    hist = <<>> =>
        /\ t.architecture = arch0
        /\ \A f \in Feature : ~t.features[f]
        /\ \A f \in Feature : ~supports_feature(t, f)

C7_Witness ==
    /\ hist = <<>>
    /\ last.op = "supports_feature"
    /\ architecture(last.f) = arch0
    /\ last.out.val = FALSE

\* C8: each *_str operation panics when Feature::new on the target's own
\* architecture is Err, and otherwise returns exactly what the handle
\* operation returns on the resolved feature, without panicking.
C8_StrFollowsLookup ==
    LET r == Feature_new(last.pre.architecture, last.name)
    IN  /\ last.op = "with_feature_str" =>
              IF r.tag = "Ok"
              THEN last.out.tag = "Ok" /\ last.out = with_feature(last.pre, r.val)
              ELSE last.out.tag = "Panic"
        /\ last.op = "without_feature_str" =>
              IF r.tag = "Ok"
              THEN last.out.tag = "Ok" /\ last.out = without_feature(last.pre, r.val)
              ELSE last.out.tag = "Panic"
        /\ last.op = "supports_feature_str" =>
              IF r.tag = "Ok"
              THEN last.out.tag = "Ok" /\ last.out.val = supports_feature(last.pre, r.val)
              ELSE last.out.tag = "Panic"

C8_Witness ==
    /\ last.op = "supports_feature_str"
    /\ last.name = <<"n","e","o","n">>
    /\ last.pre.architecture = "X86"
    /\ \E g \in Feature : last.pre.features[g]
    /\ last.out.tag = "Panic"

\* C9: every target reached from Target::new(A) keeps architecture A, and
\* every bit that is true belongs to a feature of architecture A.
C9_BitsBelongToArchitecture ==
    /\ t.architecture = arch0
    /\ \A f \in Feature : t.features[f] => architecture(f) = arch0

C9_Witness ==
    /\ Len(hist) >= 2
    /\ last.op = "with_feature_str"
    /\ last.out.tag = "Ok"
    /\ Cardinality({f \in Feature : t.features[f]}) >= 2

\* C10: a feature whose own bit is false and that is in implies() of no
\* enabled feature is not supported, also when a longer chain of
\* implications leads to it.
C10_SingleLevel ==
    \A f \in Feature :
        (/\ ~t.features[f]
         /\ ~\E a \in Feature : t.features[a] /\ f \in ImpliedBy(a)) =>
            ~supports_feature(t, f)

C10_Witness ==
    /\ t.features[3]
    /\ ~t.features[4]
    /\ ~t.features[5]
    /\ 4 \in ImpliedBy(3)
    /\ 5 \in ImpliedBy(4)
    /\ 5 \notin ImpliedBy(3)
    /\ last.op = "supports_feature"
    /\ last.f = 5
    /\ last.out.val = FALSE

====
